---- MODULE Spec2Model ----
(***************************************************************************)
(* A model of house_prices/src/main.rs: the OutputCSV pivot table and the  *)
(* filter_and_write pipeline (qualify, score, rank, truncate, date range,  *)
(* reference join, percentage-change diff, the two CSV writers).           *)
(***************************************************************************)
EXTENDS Integers, Sequences, FiniteSets, TLC

VARIABLES
    ppd_map,                  \* HashMap<(String, String), Vec<PPDSRecord>>
    reference_maps,           \* Vec<HashMap<(i32, i32), UKHPIRecord>>
    length_threshold,         \* length_filter is |x| x < length_threshold
    date_threshold,           \* date_distance_filter is |x| x < date_threshold
    number_to_return,         \* Option<i32>: <<>> is None, <<n>> is Some(n)
    fault_budget,             \* I/O failures the sink may still produce
    faults,                   \* I/O failures produced so far
    pc,                       \* position inside filter_and_write
    region_idx,               \* next element of reference_maps to process
    datapoints_to_process,    \* Vec<Datapoint>
    min_date, max_date,       \* Option<NaiveDate>
    output,                   \* OutputCSV, the price table
    percentage_change_output, \* OutputCSV, the percentage-change table
    price_file, pc_file,      \* the two destinations of the csv writers
    failure,                  \* why the run panicked, "" when it did not
    calls                     \* OutputCSV methods called by the free exploration

vars == <<ppd_map, reference_maps, length_threshold, date_threshold,
          number_to_return, fault_budget, faults, pc, region_idx,
          datapoints_to_process, min_date, max_date, output,
          percentage_change_output, price_file, pc_file, failure, calls>>

(***************************************************************************)
(* Bounds of the model.                                                    *)
(***************************************************************************)
\* sale records in the input of one run, over all properties
MaxSaleRecords == 3
\* method calls made on one table by the free exploration of OutputCSV
MaxCalls == 3
\* I/O failures the sink produces in one run
MaxFaults == 1

(***************************************************************************)
(* Generic helpers.                                                        *)
(***************************************************************************)
Min(a, b) == IF a <= b THEN a ELSE b

Abs(a) == IF a < 0 THEN -a ELSE a

RECURSIVE Gcd(_, _)
Gcd(a, b) == IF b = 0 THEN a ELSE Gcd(b, a % b)

\* every order in which the elements of S can be iterated
Perms(S) ==
    {s \in [1..Cardinality(S) -> S] :
        \A i, j \in 1..Cardinality(S) : s[i] = s[j] => i = j}

None == <<>>

Some(x) == <<x>>

(***************************************************************************)
(* chrono::NaiveDate, as <<year, month, day>>.                             *)
(***************************************************************************)
year(d) == d[1]

month(d) == d[2]

day(d) == d[3]

\* NaiveDate's Ord: by year, then month, then day
DateLE(a, b) ==
    \/ year(a) < year(b)
    \/ year(a) = year(b) /\ month(a) < month(b)
    \/ year(a) = year(b) /\ month(a) = month(b) /\ day(a) <= day(b)

\* days since 1970-01-01 in the proleptic Gregorian calendar
DayNumber(d) ==
    LET y   == IF month(d) <= 2 THEN year(d) - 1 ELSE year(d)
        era == y \div 400
        yoe == y - era * 400
        mp  == IF month(d) > 2 THEN month(d) - 3 ELSE month(d) + 9
        doy == (153 * mp + 2) \div 5 + day(d) - 1
        doe == yoe * 365 + yoe \div 4 - yoe \div 100 + doy
    IN  era * 146097 + doe - 719468

\* (b - a).num_days()
num_days(a, b) == DayNumber(b) - DayNumber(a)

\* %Y: four digits from year 0 to 9999, a sign and at least four digits outside
FormatYear(y) ==
    LET a == Abs(y)
        digits == (IF a < 10 THEN "000" ELSE IF a < 100 THEN "00"
                   ELSE IF a < 1000 THEN "0" ELSE "") \o ToString(a)
    IN  IF y < 0 THEN "-" \o digits
        ELSE IF y > 9999 THEN "+" \o digits
        ELSE digits

\* date.format("%Y-%m-%d").to_string()
format_date(d) ==
    FormatYear(year(d)) \o "-"
        \o (IF month(d) < 10 THEN "0" ELSE "") \o ToString(month(d)) \o "-"
        \o (IF day(d) < 10 THEN "0" ELSE "") \o ToString(day(d))

\* date.format("%Y-%m-01").to_string(): the day of the month is dropped
format_month(d) ==
    FormatYear(year(d)) \o "-"
        \o (IF month(d) < 10 THEN "0" ELSE "") \o ToString(month(d)) \o "-01"

(***************************************************************************)
(* The f64 score.  (last - first).num_days() as f64 * v.len() as f64 *     *)
(* 0.5 is exact in f64 for every day count and length below 2^26, so the   *)
(* score is the rational n/d in lowest terms with d > 0.                   *)
(***************************************************************************)
Fin(n, d) ==
    LET g == Gcd(Abs(n), Abs(d))
        s == IF d < 0 THEN -1 ELSE 1
    IN  [n |-> (s * n) \div g, d |-> (s * d) \div g]

\* f64::total_cmp(a, b) # Greater, for the finite non-negative scores
FLE(a, b) == a.n * b.d <= b.n * a.d

(***************************************************************************)
(* f32 values, IEEE 754 binary32 with round-to-nearest-even.  A finite     *)
(* non-zero value is s * m * 2^e with s the sign (1 or -1) and m the       *)
(* 24-bit significand, 2^23 <= m < 2^24; the two zeros have m = 0, e = 0.  *)
(* The exponent range of binary32 is not modelled: no quotient of two i32  *)
(* values, difference of two such quotients or product of it by 100        *)
(* overflows or is subnormal.                                              *)
(***************************************************************************)
\* the number of bits of m, 2^lo <= m < 2^hi
RECURSIVE BitLenIn(_, _, _)
BitLenIn(m, lo, hi) ==
    IF hi - lo = 1 THEN hi
    ELSE IF m < 2^((lo + hi) \div 2) THEN BitLenIn(m, lo, (lo + hi) \div 2)
    ELSE BitLenIn(m, (lo + hi) \div 2, hi)

BitLen(m) == IF m = 0 THEN 0 ELSE BitLenIn(m, 0, 31)

Zero(sign) == [k |-> "fin", s |-> sign, m |-> 0, e |-> 0]

Inf(sign) == [k |-> "inf", s |-> sign, m |-> 0, e |-> 0]

NaN == [k |-> "nan", s |-> 1, m |-> 0, e |-> 0]

IsZero(x) == x.k = "fin" /\ x.m = 0

\* the f32 nearest to sign * m * 2^e, ties to even, for 0 < m < 2^31
RoundF32(sign, m, e) ==
    LET len  == BitLen(m)
        drop == len - 24
        q    == m \div 2^drop
        rem  == m % 2^drop
        half == 2^(drop - 1)
        up   == rem > half \/ (rem = half /\ q % 2 = 1)
    IN  IF len <= 24
        THEN [k |-> "fin", s |-> sign, m |-> m * 2^(24 - len), e |-> e - (24 - len)]
        ELSE IF up /\ q + 1 = 2^24
        THEN [k |-> "fin", s |-> sign, m |-> 2^23, e |-> e + drop + 1]
        ELSE [k |-> "fin", s |-> sign, m |-> IF up THEN q + 1 ELSE q, e |-> e + drop]

\* n as f32 for an i32
I32AsF32(n) == IF n = 0 THEN Zero(1) ELSE RoundF32(IF n < 0 THEN -1 ELSE 1, Abs(n), 0)

\* the quotient of r * 2^(7 * count) by q after the bits in acc, r < q < 2^24;
\* the lowest bit is set when the division leaves a remainder
RECURSIVE DivBits(_, _, _, _)
DivBits(r, q, acc, count) ==
    IF count = 0 THEN (IF r # 0 /\ acc % 2 = 0 THEN acc + 1 ELSE acc)
    ELSE DivBits((r * 128) % q, q, acc * 128 + (r * 128) \div q, count - 1)

\* x / y
FDiv(x, y) ==
    IF x.k = "nan" \/ y.k = "nan" THEN NaN
    ELSE IF x.k = "inf" THEN (IF y.k = "inf" THEN NaN ELSE Inf(x.s * y.s))
    ELSE IF y.k = "inf" THEN Zero(x.s * y.s)
    ELSE IF IsZero(y) THEN (IF IsZero(x) THEN NaN ELSE Inf(x.s * y.s))
    ELSE IF IsZero(x) THEN Zero(x.s * y.s)
    ELSE RoundF32(x.s * y.s, DivBits(x.m % y.m, y.m, x.m \div y.m, 4),
                  x.e - y.e - 28)

\* a as f32 / b as f32 for two i32 values
DivAsF32(a, b) == FDiv(I32AsF32(a), I32AsF32(b))

FNeg(x) == IF x.k = "nan" THEN x ELSE [x EXCEPT !.s = -x.s]

\* m shifted right by d bits, a lost one bit kept in the lowest bit
ShiftRightJam(m, d) ==
    IF d >= 30 THEN 1
    ELSE IF m % 2^d # 0 /\ (m \div 2^d) % 2 = 0 THEN m \div 2^d + 1
    ELSE m \div 2^d

\* x + y
FAdd(x, y) ==
    IF x.k = "nan" \/ y.k = "nan" THEN NaN
    ELSE IF x.k = "inf"
        THEN IF y.k = "inf" /\ y.s # x.s THEN NaN ELSE x
    ELSE IF y.k = "inf" THEN y
    ELSE IF IsZero(x) /\ IsZero(y) THEN Zero(IF x.s = -1 /\ y.s = -1 THEN -1 ELSE 1)
    ELSE IF IsZero(x) THEN y
    ELSE IF IsZero(y) THEN x
    ELSE
        LET big   == IF x.e >= y.e THEN x ELSE y
            small == IF x.e >= y.e THEN y ELSE x
            sum   == big.s * big.m * 8
                        + small.s * ShiftRightJam(small.m * 8, big.e - small.e)
        IN  IF sum = 0 THEN Zero(1)
            ELSE RoundF32(IF sum < 0 THEN -1 ELSE 1, Abs(sum), big.e - 3)

\* x - y
FSub(x, y) == FAdd(x, FNeg(y))

\* x * c as f32 for an integer constant 0 < c < 128, itself exact in f32
FMulInt(x, c) ==
    IF x.k # "fin" \/ x.m = 0 THEN x ELSE RoundF32(x.s, x.m * c, x.e)

(***************************************************************************)
(* Natural numbers of any size, for the decimal conversion: a sequence of  *)
(* limbs in base 10^4, least significant first, without leading zero limbs.*)
(***************************************************************************)
Base == 10000

BFromInt(n) == IF n = 0 THEN <<>> ELSE IF n < Base THEN <<n>>
               ELSE IF n < Base * Base THEN <<n % Base, n \div Base>>
               ELSE <<n % Base, (n \div Base) % Base, n \div (Base * Base)>>

\* a * c + carry for a small multiplier c
RECURSIVE BMulAdd(_, _, _)
BMulAdd(a, c, carry) ==
    IF a = <<>> THEN BFromInt(carry)
    ELSE LET v == Head(a) * c + carry
         IN  <<v % Base>> \o BMulAdd(Tail(a), c, v \div Base)

RECURSIVE BStrip(_)
BStrip(a) ==
    IF a # <<>> /\ a[Len(a)] = 0 THEN BStrip(SubSeq(a, 1, Len(a) - 1)) ELSE a

BMulSmall(a, c) == BStrip(BMulAdd(a, c, 0))

RECURSIVE BMulPow2(_, _)
BMulPow2(a, k) ==
    IF k = 0 THEN a
    ELSE IF k >= 10 THEN BMulPow2(BMulSmall(a, 1024), k - 10)
    ELSE BMulPow2(BMulSmall(a, 2), k - 1)

RECURSIVE BAddCarry(_, _, _)
BAddCarry(a, b, carry) ==
    IF a = <<>> /\ b = <<>> THEN BFromInt(carry)
    ELSE LET x == IF a = <<>> THEN 0 ELSE Head(a)
             y == IF b = <<>> THEN 0 ELSE Head(b)
             v == x + y + carry
         IN  <<v % Base>> \o BAddCarry(IF a = <<>> THEN a ELSE Tail(a),
                                       IF b = <<>> THEN b ELSE Tail(b),
                                       v \div Base)

BAdd(a, b) == BAddCarry(a, b, 0)

\* a - b - borrow, for a >= b + borrow
RECURSIVE BSubBorrow(_, _, _)
BSubBorrow(a, b, borrow) ==
    IF a = <<>> THEN <<>>
    ELSE LET y == IF b = <<>> THEN 0 ELSE Head(b)
             v == Head(a) - y - borrow
         IN  <<IF v < 0 THEN v + Base ELSE v>>
                 \o BSubBorrow(Tail(a), IF b = <<>> THEN b ELSE Tail(b),
                               IF v < 0 THEN 1 ELSE 0)

BSub(a, b) == BStrip(BSubBorrow(a, b, 0))

\* -1, 0 or 1 as a < b, a = b or a > b
RECURSIVE BCmpFrom(_, _, _)
BCmpFrom(a, b, i) ==
    IF i = 0 THEN 0
    ELSE IF a[i] < b[i] THEN -1
    ELSE IF a[i] > b[i] THEN 1
    ELSE BCmpFrom(a, b, i - 1)

BCmp(a, b) ==
    IF Len(a) < Len(b) THEN -1
    ELSE IF Len(a) > Len(b) THEN 1
    ELSE BCmpFrom(a, b, Len(a))

\* the quotient of r by s when it is below 10, counted up from q
RECURSIVE BDigit(_, _, _)
BDigit(r, s, q) ==
    IF BCmp(r, s) < 0 THEN <<q, r>> ELSE BDigit(BSub(r, s), s, q + 1)

(***************************************************************************)
(* Display of an f32: the shortest decimal digits that read back as the    *)
(* same f32, the closest to the value among those, printed without an      *)
(* exponent.  In a conversion state the value left to print is r/s, the    *)
(* half gaps to the neighbouring f32 values are mp/s above and mm/s below, *)
(* ds are the digits so far and the value is 0.ds... * 10^k; a bound of    *)
(* the rounding interval belongs to it (incl) when the significand is even.*)
(***************************************************************************)
TooHigh(r, mp, s, incl) ==
    IF incl THEN BCmp(BAdd(r, mp), s) >= 0 ELSE BCmp(BAdd(r, mp), s) > 0

TooLow(r, mm, incl) ==
    IF incl THEN BCmp(r, mm) <= 0 ELSE BCmp(r, mm) < 0

\* the gap below a power of two is half the gap above it
Start(m, e) ==
    [r    |-> BMulPow2(BFromInt(m), (IF e >= 0 THEN e ELSE 0) + (IF m = 2^23 THEN 2 ELSE 1)),
     s    |-> BMulPow2(<<1>>, (IF e >= 0 THEN 0 ELSE -e) + (IF m = 2^23 THEN 2 ELSE 1)),
     mp   |-> BMulPow2(<<1>>, (IF e >= 0 THEN e ELSE 0) + (IF m = 2^23 THEN 1 ELSE 0)),
     mm   |-> BMulPow2(<<1>>, IF e >= 0 THEN e ELSE 0),
     incl |-> m % 2 = 0,
     k    |-> 0,
     ds   |-> <<>>]

\* s * 10 while the upper bound is 1 or more
RECURSIVE ScaleUp(_)
ScaleUp(c) ==
    IF TooHigh(c.r, c.mp, c.s, c.incl)
    THEN ScaleUp([c EXCEPT !.s = BMulSmall(c.s, 10), !.k = c.k + 1])
    ELSE c

\* r, mp and mm * 10
Times10(c) ==
    [c EXCEPT !.r = BMulSmall(c.r, 10), !.mp = BMulSmall(c.mp, 10),
              !.mm = BMulSmall(c.mm, 10)]

\* r, mp and mm * 10 while the upper bound stays below 1
RECURSIVE ScaleDownTo(_, _)
ScaleDownTo(c, c10) ==
    IF TooHigh(c10.r, c10.mp, c10.s, c10.incl) THEN c
    ELSE ScaleDownTo([c10 EXCEPT !.k = c.k - 1], Times10([c10 EXCEPT !.k = c.k - 1]))

ScaleDown(c) == ScaleDownTo(c, Times10(c))

\* the next digit d taken out of r, after r, mp and mm * 10
NextDigit(c10, qr) == [c10 EXCEPT !.r = qr[2], !.ds = Append(c10.ds, qr[1])]

\* the last digit of ds plus one
RoundUp(ds) == [ds EXCEPT ![Len(ds)] = ds[Len(ds)] + 1]

\* the digits, the last one rounded to the nearer bound of the interval
RECURSIVE Generate(_)
Finish(c) ==
    IF ~TooLow(c.r, c.mm, c.incl) /\ ~TooHigh(c.r, c.mp, c.s, c.incl) THEN Generate(c)
    ELSE IF ~TooHigh(c.r, c.mp, c.s, c.incl) THEN c
    ELSE IF ~TooLow(c.r, c.mm, c.incl) THEN [c EXCEPT !.ds = RoundUp(c.ds)]
    ELSE IF BCmp(BMulSmall(c.r, 2), c.s) < 0 THEN c
    ELSE [c EXCEPT !.ds = RoundUp(c.ds)]

Digit(c10) == Finish(NextDigit(c10, BDigit(c10.r, c10.s, 0)))

Generate(c) == Digit(Times10(c))

\* the state with the digits ds and the exponent k of 0.ds * 10^k
ShortestDigits(x) == Generate(ScaleDown(ScaleUp(Start(x.m, x.e))))

RECURSIVE Digits(_)
Digits(ds) == IF ds = <<>> THEN "" ELSE ToString(Head(ds)) \o Digits(Tail(ds))

RECURSIVE Zeros(_)
Zeros(n) == IF n <= 0 THEN "" ELSE "0" \o Zeros(n - 1)

\* digits_to_dec_str: no exponent, no fraction for a whole number
DecStr(ds, k) ==
    IF k <= 0 THEN "0." \o Zeros(-k) \o Digits(ds)
    ELSE IF k < Len(ds)
        THEN Digits(SubSeq(ds, 1, k)) \o "." \o Digits(SubSeq(ds, k + 1, Len(ds)))
    ELSE Digits(ds) \o Zeros(k - Len(ds))

Shortest(c) == DecStr(c.ds, c.k)

\* format!("{}", pc) for an f32; the shortest digits of a whole number below
\* 2^24 are the digits of that number
FormatF32(x) ==
    IF x.k = "nan" THEN "NaN"
    ELSE IF x.k = "inf" THEN (IF x.s > 0 THEN "inf" ELSE "-inf")
    ELSE (IF x.s < 0 THEN "-" ELSE "")
            \o (IF x.m = 0 THEN "0"
                ELSE IF -24 < x.e /\ x.e <= 0 /\ x.m % 2^(-x.e) = 0
                    THEN ToString(x.m \div 2^(-x.e))
                ELSE Shortest(ShortestDigits(x)))

\* format!("{}", n) for an i32
FormatI32(n) == ToString(n)

(***************************************************************************)
(* OutputCSV.                                                              *)
(***************************************************************************)
\* format!("{flat_name}, {building}")
ColumnLabel(flat_name, building) == flat_name \o ", " \o building

\* vec!["".to_string(); n]
EmptyCells(n) == [i \in 1..n |-> ""]

OutputCSV_new == [labels |-> <<"date">>, rows |-> <<>>]

\* self.labels = v
set_labels(t, v) == [t EXCEPT !.labels = v]

\* self.rows.push(string)
add_row(t, string) == [t EXCEPT !.rows = Append(t.rows, string)]

\* a variant that pushes the label and pads no row
PushLabelNoPad(t, label) == [t EXCEPT !.labels = Append(t.labels, label)]

\* the push of one label and of one empty cell on every existing row
PushLabel(t, label) ==
    [labels |-> Append(t.labels, label),
     rows   |-> [i \in 1..Len(t.rows) |-> Append(t.rows[i], "")]]

\* new_row[0] = ... is out of bounds when the pushed label is the only one:
\* a call on a table without labels panics at its first entry
NewRowPanics(t, entries) == Len(t.labels) = 0 /\ entries # <<>>

\* new_row: labels.len() - 1 empty cells, the date in cell 0, the value pushed last
NewRow(nlabels, datecell, valuecell) ==
    Append([EmptyCells(nlabels - 1) EXCEPT ![1] = datecell], valuecell)

\* the rows appended by one call: one per entry, in order
RECURSIVE PushRows(_, _, _)
PushRows(t, dates, values) ==
    IF dates = <<>> THEN t
    ELSE PushRows(
            [t EXCEPT !.rows =
                Append(t.rows, NewRow(Len(t.labels), Head(dates), Head(values)))],
            Tail(dates), Tail(values))

add_entries(t, flat_name, building, ppds) ==
    PushRows(PushLabel(t, ColumnLabel(flat_name, building)),
             [i \in 1..Len(ppds) |-> format_month(ppds[i].date)],
             [i \in 1..Len(ppds) |-> FormatI32(ppds[i].price_paid)])

add_percentage_change(t, flat_name, building, percentages) ==
    PushRows(PushLabel(t, ColumnLabel(flat_name, building)),
             [i \in 1..Len(percentages) |-> format_month(percentages[i][1])],
             [i \in 1..Len(percentages) |-> FormatF32(percentages[i][2])])

\* price_to_use, a closure reading one field of the record, is the name of
\* that field
add_entries_hdi(t, flat_name, building, ppds, price_to_use) ==
    PushRows(PushLabel(t, ColumnLabel(flat_name, building)),
             [i \in 1..Len(ppds) |-> format_month(ppds[i].time)],
             [i \in 1..Len(ppds) |-> FormatI32(ppds[i][price_to_use])])

\* the closures |x| x.average_price_all and |x| x.average_price_flats
PriceAll == "average_price_all"

PriceFlats == "average_price_flats"

(***************************************************************************)
(* Records.                                                                *)
(***************************************************************************)
\* PPDSRecord (estate is never read by the program and is left out)
Sale(k, date, price) ==
    [date |-> date, flat_name |-> k[1], building |-> k[2], price_paid |-> price]

\* UKHPIRecord, the fields filter_and_write reads
Reference(region, time, all, flats) ==
    [region |-> region, time |-> time,
     average_price_all |-> all, average_price_flats |-> flats]

\* the key of create_reference_mapping and of the lookups: (month, year)
RefKey(date) == <<month(date), year(date)>>

(***************************************************************************)
(* filter_and_write: qualification, scoring, ranking, truncation.          *)
(***************************************************************************)
length_filter(x) == x < length_threshold

date_distance_filter(x) == x < date_threshold

\* v_copy.sort_by(|a, b| a.date.cmp(&b.date)), a stable sort
RECURSIVE InsertByDate(_, _)
InsertByDate(s, x) ==
    IF s = <<>> THEN <<x>>
    ELSE IF DateLE(Head(s).date, x.date)
        THEN <<Head(s)>> \o InsertByDate(Tail(s), x)
    ELSE <<x>> \o s

RECURSIVE sort_by_date(_)
sort_by_date(v) ==
    IF v = <<>> THEN <<>>
    ELSE InsertByDate(sort_by_date(SubSeq(v, 1, Len(v) - 1)), v[Len(v)])

\* (last - first).num_days() as f64 * v.len() as f64 * 0.5f64
Score(first, last, len) == Fin(num_days(first, last) * len, 2)

Datapoint(k, v_copy, len) ==
    [score    |-> Score(v_copy[1].date, v_copy[Len(v_copy)].date, len),
     flat     |-> k[1],
     building |-> k[2],
     first    |-> v_copy[1].date,
     last     |-> v_copy[Len(v_copy)].date,
     records  |-> v_copy]

\* a variant that applies length_filter alone
RejectedByLengthOnly(v) == length_filter(Len(v))

\* whether one iteration of the loop over ppd_map reaches the push
Rejected(v) ==
    \/ length_filter(Len(v))
    \/ LET v_copy == sort_by_date(v)
       IN  date_distance_filter(num_days(v_copy[1].date, v_copy[Len(v_copy)].date))

\* the loop over ppd_map, visiting its keys in the order given; no Vec of
\* the map is empty (create_ppd_mapping inserts a key with its first record)
RECURSIVE Collect(_, _)
Collect(map, order) ==
    IF order = <<>> THEN <<>>
    ELSE LET k == Head(order)
             v == map[k]
         IN  (IF Rejected(v) THEN <<>> ELSE <<Datapoint(k, sort_by_date(v), Len(v))>>)
                 \o Collect(map, Tail(order))

\* datapoints_to_process.sort_by(|a, b| b.score.total_cmp(&a.score)), stable
RECURSIVE InsertByScore(_, _)
InsertByScore(s, x) ==
    IF s = <<>> THEN <<x>>
    ELSE IF FLE(x.score, Head(s).score)
        THEN <<Head(s)>> \o InsertByScore(Tail(s), x)
    ELSE <<x>> \o s

RECURSIVE sort_by_score(_)
sort_by_score(s) ==
    IF s = <<>> THEN <<>>
    ELSE InsertByScore(sort_by_score(SubSeq(s, 1, Len(s) - 1)), s[Len(s)])

\* a variant that keeps one datapoint too many
TakeOneMore(s, n) ==
    IF n < 0 THEN s ELSE SubSeq(s, 1, Min(n + 1, Len(s)))

\* into_iter().take(n as usize).collect(): a negative n converts to a usize of
\* at least 2^63, which is more than any vector holds
TakeAsUsize(s, n) ==
    IF n < 0 THEN s ELSE SubSeq(s, 1, Min(n, Len(s)))

Truncate(s, ntr) == IF ntr = None THEN s ELSE TakeAsUsize(s, ntr[1])

Selection(map, order, ntr) == Truncate(sort_by_score(Collect(map, order)), ntr)

(***************************************************************************)
(* filter_and_write: the date range and the price columns of the selection.*)
(***************************************************************************)
DateMin(a, b) == IF DateLE(a, b) THEN a ELSE b

DateMax(a, b) == IF DateLE(a, b) THEN b ELSE a

RECURSIVE MinFirst(_, _)
MinFirst(dps, acc) ==
    IF dps = <<>> THEN acc
    ELSE MinFirst(Tail(dps),
                  IF acc = None THEN Some(Head(dps).first)
                  ELSE Some(DateMin(acc[1], Head(dps).first)))

RECURSIVE MaxLast(_, _)
MaxLast(dps, acc) ==
    IF dps = <<>> THEN acc
    ELSE MaxLast(Tail(dps),
                 IF acc = None THEN Some(Head(dps).last)
                 ELSE Some(DateMax(acc[1], Head(dps).last)))

RECURSIVE AddAllEntries(_, _)
AddAllEntries(t, dps) ==
    IF dps = <<>> THEN t
    ELSE AddAllEntries(
            add_entries(t, Head(dps).flat, Head(dps).building, Head(dps).records),
            Tail(dps))

(***************************************************************************)
(* filter_and_write: one iteration of the loop over reference_maps.        *)
(***************************************************************************)
\* a variant that checks the upper end of the range alone
InRangeNoLower(time, lo, hi) == DateLE(time, hi)

\* (min_date.unwrap() <= dp.time) && (dp.time <= max_date.unwrap())
InRange(time, lo, hi) == DateLE(lo, time) /\ DateLE(time, hi)

\* records: the reference records in range, in the map's iteration order
RangeRecords(ref_map, order, lo, hi) ==
    SelectSeq([i \in 1..Len(order) |-> ref_map[order[i]]],
              LAMBDA dp : InRange(dp.time, lo, hi))

\* a variant that substitutes a record for a missing key
LookupSubstitute(ref_map, key) ==
    IF key \in DOMAIN ref_map THEN Some(ref_map[key])
    ELSE Some(Reference("", <<key[2], key[1], 1>>, 1, 1))

\* ref_map[&key]: the record under the key, None where the index panics
Lookup(ref_map, key) ==
    IF key \in DOMAIN ref_map THEN Some(ref_map[key]) ELSE None

\* (change - change_of_ref) * 100f32; prices are not negative, so the i32
\* subtractions cannot overflow
PercentageChangeDiff(prev_r, r, new_ref, original_ref) ==
    LET change        == DivAsF32(r.price_paid - prev_r.price_paid, prev_r.price_paid)
        change_of_ref == DivAsF32(new_ref - original_ref, original_ref)
    IN  FMulInt(FSub(change, change_of_ref), 100)

\* the value the Some(prev_r) arm leaves in previous_record
NextPrevious(prev_r, r) == Some(prev_r)

\* the loop over d.records
RECURSIVE Percentages(_, _, _, _)
Percentages(rs, previous_record, percentages, ref_map) ==
    IF rs = <<>> THEN [err |-> "", percentages |-> percentages]
    ELSE LET r == Head(rs)
         IN  IF previous_record = None
             THEN Percentages(Tail(rs), Some(r),
                              Append(percentages, <<r.date, Zero(1)>>), ref_map)
             ELSE LET prev_r == previous_record[1]
                      new    == Lookup(ref_map, RefKey(r.date))
                      orig   == Lookup(ref_map, RefKey(prev_r.date))
                  IN  IF new = None \/ orig = None
                      THEN [err |-> "missing_reference_key",
                            percentages |-> percentages]
                      ELSE Percentages(
                              Tail(rs), NextPrevious(prev_r, r),
                              Append(percentages,
                                     <<r.date,
                                       PercentageChangeDiff(
                                           prev_r, r, new[1].average_price_flats,
                                           orig[1].average_price_flats)>>),
                              ref_map)

\* the keys the loop over d.records looks up in ref_map
RECURSIVE LookedUpKeys(_, _)
LookedUpKeys(rs, previous_record) ==
    IF rs = <<>> THEN {}
    ELSE IF previous_record = None THEN LookedUpKeys(Tail(rs), Some(Head(rs)))
    ELSE {RefKey(Head(rs).date), RefKey(previous_record[1].date)}
             \cup LookedUpKeys(Tail(rs), NextPrevious(previous_record[1], Head(rs)))

\* format!("{} v {}", d.building, region)
VersusLabel(building, region) == building \o " v " \o region

\* the loop over datapoints_to_process inside one region
RECURSIVE RegionPercentages(_, _, _, _)
RegionPercentages(dps, ref_map, records, pco) ==
    IF dps = <<>> THEN [err |-> "", pco |-> pco]
    ELSE LET d == Head(dps)
             p == Percentages(d.records, None, <<>>, ref_map)
         IN  IF p.err # "" THEN [err |-> p.err, pco |-> pco]
             ELSE IF records = <<>> THEN [err |-> "unwrap_on_none", pco |-> pco]
             ELSE RegionPercentages(
                     Tail(dps), ref_map, records,
                     add_percentage_change(
                         pco, d.flat, VersusLabel(d.building, records[1].region),
                         p.percentages))

\* one iteration of the loop over reference_maps
RegionStep(ref_map, order, dps, lo, hi, out, pco) ==
    IF order # <<>> /\ lo = None
    THEN [err |-> "unwrap_on_none", output |-> out, pco |-> pco]
    ELSE LET records == IF order = <<>> THEN <<>>
                        ELSE RangeRecords(ref_map, order, lo[1], hi[1])
             p == RegionPercentages(dps, ref_map, records, pco)
         IN  IF p.err # "" THEN [err |-> p.err, output |-> out, pco |-> p.pco]
             ELSE IF records = <<>>
             THEN [err |-> "unwrap_on_none", output |-> out, pco |-> p.pco]
             ELSE [err    |-> "",
                   output |-> add_entries_hdi(
                                 add_entries_hdi(out, records[1].region,
                                                 "all sales average", records, PriceAll),
                                 records[1].region, "flats average", records, PriceFlats),
                   pco    |-> p.pco]

(***************************************************************************)
(* The sink: csv::Writer::from_path, write_record, flush.                  *)
(***************************************************************************)
NoFile == [exists |-> FALSE, records |-> <<>>]

\* the header followed by the rows, as the two writer loops pass them on
TableRecords(t) == <<t.labels>> \o t.rows

\* what the sink can do to one table: refuse to open the destination, lose
\* the records of the write_record calls in lost, lose everything at flush
SinkOutcomes(n, budget) ==
    {[open_ok |-> TRUE, lost |-> {}, flush_ok |-> TRUE]}
        \cup (IF budget >= 1
              THEN {[open_ok |-> FALSE, lost |-> {}, flush_ok |-> TRUE],
                    [open_ok |-> TRUE, lost |-> {}, flush_ok |-> FALSE]}
              ELSE {})
        \cup {[open_ok |-> TRUE, lost |-> l, flush_ok |-> TRUE] :
                l \in {x \in SUBSET (1..n) : x # {} /\ Cardinality(x) <= budget}}

SinkFaults(o) ==
    (IF o.open_ok THEN 0 ELSE 1) + Cardinality(o.lost) + (IF o.flush_ok THEN 0 ELSE 1)

\* the destination after the writer was opened, written and flushed; every
\* Result of write_record and flush is discarded
Written(t, o) ==
    [exists  |-> TRUE,
     records |-> IF o.flush_ok
                 THEN LET all == TableRecords(t)
                          kept == {i \in 1..Len(all) : i \notin o.lost}
                          at(j) == CHOOSE i \in kept :
                                       Cardinality({h \in kept : h < i}) = j - 1
                      IN  [j \in 1..Cardinality(kept) |-> all[at(j)]]
                 ELSE <<>>]

(***************************************************************************)
(* Inputs.                                                                 *)
(***************************************************************************)
K1 == <<"1", "A">>

K2 == <<"2", "A">>

Keys == {K1, K2}

SaleDates == {<<2000, 1, 15>>, <<2000, 2, 1>>, <<2001, 2, 20>>}

\* powers of two, and zero
Prices == {0, 64, 128}

Region1 == "City of London"

Region2 == "London"

RefKeys == {RefKey(d) : d \in SaleDates}

RefFlats(region, key) ==
    IF key = <<1, 2000>> THEN 1024
    ELSE IF key = <<2, 2000>> THEN 2048
    ELSE IF region = Region1 THEN 4096 ELSE 0

\* one row of a reference file: the snapshot of the first day of a month
RefRecord(region, key) ==
    Reference(region, <<key[2], key[1], 1>>,
              RefFlats(region, key) + 512, RefFlats(region, key))

\* create_reference_mapping: the records keyed by (month, year)
RefMap(region, keys) == [k \in keys |-> RefRecord(region, k)]

\* every Vec a property can have with len sales
SeriesOfLen(k, prices, len) ==
    {[i \in 1..len |-> Sale(k, f[i][1], f[i][2])] :
        f \in [1..len -> SaleDates \X prices]}

\* every Vec a property can have with at most n sales
SeriesUpTo(k, prices, n) == UNION {SeriesOfLen(k, prices, len) : len \in 0..n}

\* create_ppd_mapping: a key is present when it has at least one record
PpdMapOf(a, b) ==
    [k \in {x \in Keys : (IF x = K1 THEN a ELSE b) # <<>>} |->
        IF k = K1 THEN a ELSE b]

\* the maps of at most MaxSaleRecords sale records
PpdMaps(prices) ==
    UNION {{PpdMapOf(a, b) : a \in SeriesOfLen(K1, prices, n[1]),
                             b \in SeriesOfLen(K2, prices, n[2])} :
             n \in {x \in (0..MaxSaleRecords) \X (0..MaxSaleRecords) :
                       x[1] + x[2] <= MaxSaleRecords}}

\* the maps of one property
SingleKeyMaps(prices) ==
    {PpdMapOf(a, <<>>) : a \in SeriesUpTo(K1, prices, MaxSaleRecords)}

FullReference(region) == RefMap(region, RefKeys)

\* no region, one region with any months, two regions of which the second
\* misses at most one month
ReferenceLists ==
    {<<>>}
        \cup {<<RefMap(Region1, a)>> : a \in SUBSET RefKeys}
        \cup {<<RefMap(Region1, p[1]), RefMap(Region2, p[2])>> :
                p \in (SUBSET RefKeys)
                          \X {x \in SUBSET RefKeys : Cardinality(x) >= 2}}

\* the state at the entry of filter_and_write, called with these arguments
Input(m, refs, lt, dt, ntr, fb) ==
    /\ ppd_map = m
    /\ reference_maps = refs
    /\ length_threshold = lt
    /\ date_threshold = dt
    /\ number_to_return = ntr
    /\ fault_budget = fb
    /\ faults = 0
    /\ pc = "select"
    /\ region_idx = 1
    /\ datapoints_to_process = <<>>
    /\ min_date = None
    /\ max_date = None
    /\ output = OutputCSV_new
    /\ percentage_change_output = OutputCSV_new
    /\ price_file = NoFile
    /\ pc_file = NoFile
    /\ failure = ""
    /\ calls = 0

\* the filters and the limit vary, over one complete reference index
SelectionInputs ==
    \E m \in PpdMaps({64}), lt \in {0, 2, 3}, dt \in {0, 30},
       ntr \in {None, Some(-1), Some(0), Some(1)} :
        Input(m, <<FullReference(Region1)>>, lt, dt, ntr, 0)

\* the reference indexes vary
ReferenceInputs ==
    \E m \in PpdMaps({64}), refs \in ReferenceLists : Input(m, refs, 0, 0, None, 0)

\* the reference indexes vary under a limit of zero
EmptyInputs ==
    \E m \in SingleKeyMaps({64}), refs \in ReferenceLists :
        Input(m, refs, 0, 0, Some(0), 0)

\* the prices vary, over the complete index of either region
PriceInputs ==
    \E m \in SingleKeyMaps(Prices), r \in {Region1, Region2} :
        Input(m, <<FullReference(r)>>, 0, 0, None, 0)

\* the sink fails
SinkInputs ==
    \E m \in SingleKeyMaps({64}), fb \in 1..MaxFaults :
        Input(m, <<FullReference(Region1)>>, 0, 0, None, fb)

(***************************************************************************)
(* The run of filter_and_write.                                            *)
(***************************************************************************)
Init ==
    \/ SelectionInputs
    \/ ReferenceInputs
    \/ EmptyInputs
    \/ PriceInputs
    \/ SinkInputs

inputs == <<ppd_map, reference_maps, length_threshold, date_threshold,
            number_to_return, fault_budget>>

\* lines 200-231: the loop over ppd_map in the order the HashMap yields its
\* keys, the sort by score, the truncation
Select ==
    /\ pc = "select"
    /\ \E order \in Perms(DOMAIN ppd_map) :
        datapoints_to_process' = Selection(ppd_map, order, number_to_return)
    /\ pc' = "accumulate"
    /\ UNCHANGED <<inputs, calls, faults, region_idx, min_date, max_date, output,
                   percentage_change_output, price_file, pc_file, failure>>

\* lines 233-256: the date range and the price columns of the selection
Accumulate ==
    /\ pc = "accumulate"
    /\ min_date' = MinFirst(datapoints_to_process, None)
    /\ max_date' = MaxLast(datapoints_to_process, None)
    /\ output' = AddAllEntries(output, datapoints_to_process)
    /\ pc' = IF reference_maps = <<>> THEN "write_price" ELSE "regions"
    /\ UNCHANGED <<inputs, calls, faults, region_idx, datapoints_to_process,
                   percentage_change_output, price_file, pc_file, failure>>

\* lines 260-320: one iteration of the loop over reference_maps, the HashMap
\* yielding its records in any order; a panic ends the run
ProcessRegion ==
    /\ pc = "regions"
    /\ \E order \in Perms(DOMAIN reference_maps[region_idx]) :
        LET step == RegionStep(reference_maps[region_idx], order,
                               datapoints_to_process, min_date, max_date,
                               output, percentage_change_output)
        IN  /\ output' = step.output
            /\ percentage_change_output' = step.pco
            /\ failure' = step.err
            /\ pc' = IF step.err # "" THEN "panicked"
                     ELSE IF region_idx = Len(reference_maps) THEN "write_price"
                     ELSE "regions"
    /\ region_idx' = region_idx + 1
    /\ UNCHANGED <<inputs, calls, faults, datapoints_to_process, min_date, max_date,
                   price_file, pc_file>>

\* lines 322-328: the writer of the price table
WritePrice ==
    /\ pc = "write_price"
    /\ \E o \in SinkOutcomes(Len(TableRecords(output)), fault_budget - faults) :
        /\ faults' = faults + SinkFaults(o)
        /\ IF o.open_ok
           THEN /\ price_file' = Written(output, o)
                /\ pc' = "write_pc"
                /\ failure' = failure
           ELSE /\ price_file' = price_file
                /\ pc' = "panicked"
                /\ failure' = "open_failed"
    /\ UNCHANGED <<inputs, calls, region_idx, datapoints_to_process, min_date, max_date,
                   output, percentage_change_output, pc_file>>

\* lines 330-337: the writer of the percentage-change table
WritePc ==
    /\ pc = "write_pc"
    /\ \E o \in SinkOutcomes(Len(TableRecords(percentage_change_output)),
                             fault_budget - faults) :
        /\ faults' = faults + SinkFaults(o)
        /\ IF o.open_ok
           THEN /\ pc_file' = Written(percentage_change_output, o)
                /\ pc' = "done"
                /\ failure' = failure
           ELSE /\ pc_file' = pc_file
                /\ pc' = "panicked"
                /\ failure' = "open_failed"
    /\ UNCHANGED <<inputs, calls, region_idx, datapoints_to_process, min_date, max_date,
                   output, percentage_change_output, price_file>>

(***************************************************************************)
(* OutputCSV on its own: any sequence of calls of its five methods on a    *)
(* table made by OutputCSV::new().  pc is "csv" while only add_entries,    *)
(* add_percentage_change and add_entries_hdi have been called, "csv_raw"   *)
(* once set_labels or add_row has been.                                    *)
(***************************************************************************)
CsvSales == <<Sale(K1, <<2000, 1, 15>>, 64), Sale(K1, <<2001, 2, 20>>, 128)>>

\* 0f32 for the first sale, then a price down by a third: -33.333336
CsvPercentages ==
    <<<<<<2000, 1, 15>>, Zero(1)>>,
      <<<<2001, 2, 20>>, FMulInt(DivAsF32(-32, 96), 100)>>>>

CsvReferences == <<RefRecord(Region1, <<1, 2000>>)>>

\* the arguments of set_labels: no label, or the first labels of the all-sale map
CsvLabels == {<<>>, <<"date", "barbican">>}

\* the arguments of add_row: no cell, or the date and the price of a sale
CsvRows == {<<>>, <<format_date(CsvSales[1].date), FormatI32(CsvSales[1].price_paid)>>}

\* the first n elements of s, for every n from zero
Prefixes(s) == {SubSeq(s, 1, n) : n \in 0..Len(s)}

InitCSV ==
    /\ ppd_map = <<>>
    /\ reference_maps = <<>>
    /\ length_threshold = 0
    /\ date_threshold = 0
    /\ number_to_return = None
    /\ fault_budget = 0
    /\ faults = 0
    /\ pc = "csv"
    /\ region_idx = 1
    /\ datapoints_to_process = <<>>
    /\ min_date = None
    /\ max_date = None
    /\ output = OutputCSV_new
    /\ percentage_change_output = OutputCSV_new
    /\ price_file = NoFile
    /\ pc_file = NoFile
    /\ failure = ""
    /\ calls = 0

all_but_output == <<inputs, faults, region_idx, datapoints_to_process,
                    min_date, max_date, percentage_change_output, price_file,
                    pc_file>>

CsvAddEntries ==
    /\ pc \in {"csv", "csv_raw"}
    /\ calls < MaxCalls
    /\ \E ppds \in Prefixes(CsvSales) :
        IF NewRowPanics(output, ppds)
        THEN /\ output' = PushLabel(output, ColumnLabel(K1[1], K1[2]))
             /\ pc' = "panicked"
             /\ failure' = "index_out_of_bounds"
        ELSE /\ output' = add_entries(output, K1[1], K1[2], ppds)
             /\ UNCHANGED <<pc, failure>>
    /\ calls' = calls + 1
    /\ UNCHANGED all_but_output

CsvAddPercentageChange ==
    /\ pc \in {"csv", "csv_raw"}
    /\ calls < MaxCalls
    /\ \E percentages \in Prefixes(CsvPercentages) :
        IF NewRowPanics(output, percentages)
        THEN /\ output' = PushLabel(output,
                              ColumnLabel(K1[1], VersusLabel(K1[2], Region1)))
             /\ pc' = "panicked"
             /\ failure' = "index_out_of_bounds"
        ELSE /\ output' = add_percentage_change(output, K1[1],
                              VersusLabel(K1[2], Region1), percentages)
             /\ UNCHANGED <<pc, failure>>
    /\ calls' = calls + 1
    /\ UNCHANGED all_but_output

CsvAddEntriesHdi ==
    /\ pc \in {"csv", "csv_raw"}
    /\ calls < MaxCalls
    /\ \E ppds \in Prefixes(CsvReferences),
          use \in {<<"all sales average", PriceAll>>, <<"flats average", PriceFlats>>} :
        IF NewRowPanics(output, ppds)
        THEN /\ output' = PushLabel(output, ColumnLabel(Region1, use[1]))
             /\ pc' = "panicked"
             /\ failure' = "index_out_of_bounds"
        ELSE /\ output' = add_entries_hdi(output, Region1, use[1], ppds, use[2])
             /\ UNCHANGED <<pc, failure>>
    /\ calls' = calls + 1
    /\ UNCHANGED all_but_output

CsvSetLabels ==
    /\ pc \in {"csv", "csv_raw"}
    /\ calls < MaxCalls
    /\ \E v \in CsvLabels : output' = set_labels(output, v)
    /\ pc' = "csv_raw"
    /\ calls' = calls + 1
    /\ UNCHANGED <<all_but_output, failure>>

CsvAddRow ==
    /\ pc \in {"csv", "csv_raw"}
    /\ calls < MaxCalls
    /\ \E string \in CsvRows : output' = add_row(output, string)
    /\ pc' = "csv_raw"
    /\ calls' = calls + 1
    /\ UNCHANGED <<all_but_output, failure>>

Next ==
    \/ Select
    \/ Accumulate
    \/ ProcessRegion
    \/ WritePrice
    \/ WritePc
    \/ CsvAddEntries
    \/ CsvAddPercentageChange
    \/ CsvAddEntriesHdi
    \/ CsvSetLabels
    \/ CsvAddRow

Spec == (Init \/ InitCSV) /\ [][Next]_vars

(***************************************************************************)
(* Vocabulary of the properties below.                                     *)
(***************************************************************************)
Rectangular(t) == \A i \in 1..Len(t.rows) : Len(t.rows[i]) = Len(t.labels)

KeyOf(d) == <<d.flat, d.building>>

SelectedKeys == {KeyOf(datapoints_to_process[j]) : j \in 1..Len(datapoints_to_process)}

\* the earliest and the latest sale of a series, without sorting it
Earliest(v) ==
    CHOOSE d \in {v[i].date : i \in 1..Len(v)} :
        \A i \in 1..Len(v) : DateLE(d, v[i].date)

Latest(v) ==
    CHOOSE d \in {v[i].date : i \in 1..Len(v)} :
        \A i \in 1..Len(v) : DateLE(v[i].date, d)

SpanDays(v) == DayNumber(Latest(v)) - DayNumber(Earliest(v))

\* a series one of the two filters rejects
FilteredOut(k) ==
    \/ Len(ppd_map[k]) < length_threshold
    \/ SpanDays(ppd_map[k]) < date_threshold

\* twice the score of the documentation: days(first, last) * sale count * 0.5
TwiceScore(v) == SpanDays(v) * Len(v)

Selected == pc \notin {"select", "csv"}

Accumulated == pc \notin {"select", "accumulate", "csv"}

\* the regions whose loop iteration ran to its end
DoneRegions ==
    IF pc = "panicked" /\ failure # "open_failed"
    THEN 1..(region_idx - 2)
    ELSE 1..(region_idx - 1)

AllRegionsDone == pc \in {"write_price", "write_pc", "done"}

RECURSIVE SalesUpTo(_)
SalesUpTo(j) ==
    IF j = 0 THEN 0 ELSE SalesUpTo(j - 1) + Len(datapoints_to_process[j].records)

\* the cell add_percentage_change wrote for sale k of datapoint j against
\* region i, i a region of DoneRegions
PcCell(i, j, k) ==
    LET n == Len(datapoints_to_process)
    IN  percentage_change_output.rows[(i - 1) * SalesUpTo(n) + SalesUpTo(j - 1) + k]
                                     [1 + (i - 1) * n + j]

\* the rows of table t that hold a value in one of the columns cols
RowsWithValueIn(t, cols) ==
    {i \in 1..Len(t.rows) : \E c \in cols : c <= Len(t.rows[i]) /\ t.rows[i][c] # ""}

Header(file) == IF file.records = <<>> THEN <<>> ELSE file.records[1]

InSeq(x, s) == \E i \in 1..Len(s) : s[i] = x

(***************************************************************************)
(* C1.  Every row of a table built from OutputCSV::new() by add_entries,   *)
(* add_percentage_change and add_entries_hdi calls alone has exactly       *)
(* labels.len() cells, and so has every record filter_and_write hands to   *)
(* its two writers.                                                        *)
(***************************************************************************)
\* neither set_labels nor add_row has been called on a table
OnlyAddCalls == pc # "csv_raw" /\ failure # "index_out_of_bounds"

C1_Rectangular ==
    OnlyAddCalls =>
        /\ Rectangular(output)
        /\ Rectangular(percentage_change_output)
        /\ \A i \in 1..Len(price_file.records) :
            Len(price_file.records[i]) = Len(output.labels)
        /\ \A i \in 1..Len(pc_file.records) :
            Len(pc_file.records[i]) = Len(percentage_change_output.labels)

\* three calls, the second with no record: the first row was padded twice
\* and the last row sits under the last label
C1_Witness ==
    /\ pc = "csv"
    /\ Len(output.labels) = 4
    /\ Len(output.rows) = 3
    /\ output.rows[1][2] # "" /\ output.rows[1][3] = "" /\ output.rows[1][4] = ""
    /\ output.rows[3][4] # ""
    /\ \A i \in 1..3 : output.rows[i][3] = ""

(***************************************************************************)
(* C2.  A series for which length_filter(sale count) or                    *)
(* date_distance_filter(days between earliest and latest sale) is true is  *)
(* not in the ranked selection and has no column and no row in the price   *)
(* table or in the percentage-change table.                                *)
(***************************************************************************)
C2_FilteredOutAbsent ==
    /\ \A k \in DOMAIN ppd_map :
        FilteredOut(k) =>
            /\ k \notin SelectedKeys
            /\ ~InSeq(ColumnLabel(k[1], k[2]), output.labels)
            /\ ~InSeq(ColumnLabel(k[1], k[2]), Header(price_file))
            /\ \A r \in {Region1, Region2} :
                /\ ~InSeq(ColumnLabel(k[1], VersusLabel(k[2], r)),
                          percentage_change_output.labels)
                /\ ~InSeq(ColumnLabel(k[1], VersusLabel(k[2], r)), Header(pc_file))
    \* the sale rows are those of the selected series and no more
    /\ Accumulated =>
        /\ Cardinality(RowsWithValueIn(output, 2..(1 + Len(datapoints_to_process))))
               = SalesUpTo(Len(datapoints_to_process))
        /\ \A i \in DoneRegions :
            Cardinality(RowsWithValueIn(
                percentage_change_output,
                (2 + (i - 1) * Len(datapoints_to_process))
                    ..(1 + i * Len(datapoints_to_process))))
              = SalesUpTo(Len(datapoints_to_process))

\* a finished run in which the date filter alone rejected one series and
\* another series was selected
C2_Witness ==
    /\ pc = "done"
    /\ SelectedKeys # {}
    /\ \E k \in DOMAIN ppd_map :
        /\ Len(ppd_map[k]) >= length_threshold
        /\ SpanDays(ppd_map[k]) < date_threshold
    /\ Len(price_file.records) > 1

(***************************************************************************)
(* C3.  With number_to_return = Some(N), for every i32 N including zero    *)
(* and the negative values, the selection holds at most N datapoints (none *)
(* for N <= 0) and no qualifying series left out has a strictly higher     *)
(* score than a selected one.                                              *)
(***************************************************************************)
C3_TopN ==
    (Selected /\ number_to_return # None) =>
        LET N == number_to_return[1]
        IN  /\ Len(datapoints_to_process) <= (IF N < 0 THEN 0 ELSE N)
            /\ SelectedKeys \subseteq {k \in DOMAIN ppd_map : ~FilteredOut(k)}
            /\ \A k \in DOMAIN ppd_map :
                (~FilteredOut(k) /\ k \notin SelectedKeys) =>
                    \A h \in SelectedKeys :
                        TwiceScore(ppd_map[k]) <= TwiceScore(ppd_map[h])

(***************************************************************************)
(* C4.  For every selected series s_1..s_n and every region, the k-th      *)
(* percentage entry, k >= 2, is the diff of the consecutive pair           *)
(* (s_(k-1), s_k): ((curr - prev)/prev - (ref[curr] - ref[prev])/ref[prev])*)
(* * 100 with prev the sale immediately before curr.                       *)
(***************************************************************************)
ConsecutiveDiff(prev, curr, ref_map) ==
    FMulInt(
        FSub(DivAsF32(curr.price_paid - prev.price_paid, prev.price_paid),
             DivAsF32(ref_map[RefKey(curr.date)].average_price_flats
                          - ref_map[RefKey(prev.date)].average_price_flats,
                      ref_map[RefKey(prev.date)].average_price_flats)),
        100)

C4_ConsecutivePairs ==
    \A i \in DoneRegions :
        \A j \in 1..Len(datapoints_to_process) :
            LET s == datapoints_to_process[j].records
            IN  \A k \in 2..Len(s) :
                    \* every denominator of the series is non-zero
                    (\A h \in 1..Len(s) :
                        /\ s[h].price_paid # 0
                        /\ reference_maps[i][RefKey(s[h].date)].average_price_flats # 0)
                    => PcCell(i, j, k)
                         = FormatF32(ConsecutiveDiff(s[k - 1], s[k], reference_maps[i]))

(***************************************************************************)
(* C5.  Original statement: for every selected series and every configured *)
(* region, a sale date whose (month, year) has no record in the region's   *)
(* index makes the run fail, the only sale of a one-sale series included.  *)
(***************************************************************************)
MissingKey(d, i) ==
    \E h \in 1..Len(d.records) :
        RefKey(d.records[h].date) \notin DOMAIN reference_maps[i]

C5_EveryMissingKeyFails ==
    AllRegionsDone =>
        \A i \in 1..Len(reference_maps) :
            \A j \in 1..Len(datapoints_to_process) :
                ~MissingKey(datapoints_to_process[j], i)

(***************************************************************************)
(* C5, amended.  For every selected series of at least two sales and every *)
(* configured region, a sale date whose (month, year) has no record in the *)
(* region's index makes the run panic, on the lookup or on an earlier      *)
(* unwrap, before either destination is opened: no value is substituted    *)
(* and no sale is skipped.  A selected series of one sale is never looked  *)
(* up.                                                                     *)
(***************************************************************************)
C5_MissingKeyOfPairFails ==
    (Selected /\ \E i \in 1..Len(reference_maps) :
                    \E j \in 1..Len(datapoints_to_process) :
                        /\ Len(datapoints_to_process[j].records) >= 2
                        /\ MissingKey(datapoints_to_process[j], i))
    => /\ ~AllRegionsDone
       /\ price_file = NoFile
       /\ pc_file = NoFile
       /\ pc = "panicked" =>
            failure \in {"missing_reference_key", "unwrap_on_none"}

\* the second region lacks the month of the last of three sales, and the
\* run panicked on that lookup after the first region went through
C5_Witness ==
    /\ pc = "panicked"
    /\ failure = "missing_reference_key"
    /\ region_idx = 3
    /\ \E j \in 1..Len(datapoints_to_process) :
        LET s == datapoints_to_process[j].records
        IN  /\ Len(s) = 3
            /\ RefKey(s[1].date) \in DOMAIN reference_maps[2]
            /\ RefKey(s[2].date) \in DOMAIN reference_maps[2]
            /\ RefKey(s[3].date) \notin DOMAIN reference_maps[2]

(***************************************************************************)
(* C6.  Two runs on the same sale records and reference records write the  *)
(* same tables, whatever order the maps are iterated in: every run writes  *)
(* what the run iterating each map in one fixed order writes.              *)
(***************************************************************************)
FixedOrder(S) == CHOOSE o \in Perms(S) : TRUE

RECURSIVE FixedRegions(_, _, _, _)
FixedRegions(i, dps, out, pco) ==
    IF i > Len(reference_maps) THEN [output |-> out, pco |-> pco]
    ELSE LET step == RegionStep(reference_maps[i],
                                FixedOrder(DOMAIN reference_maps[i]), dps,
                                MinFirst(dps, None), MaxLast(dps, None), out, pco)
         IN  FixedRegions(i + 1, dps, step.output, step.pco)

FixedRun ==
    LET dps == Selection(ppd_map, FixedOrder(DOMAIN ppd_map), number_to_return)
    IN  FixedRegions(1, dps, AddAllEntries(OutputCSV_new, dps), OutputCSV_new)

C6_Deterministic ==
    (pc = "done" /\ faults = 0) =>
        /\ price_file.records = TableRecords(FixedRun.output)
        /\ pc_file.records = TableRecords(FixedRun.pco)

(***************************************************************************)
(* C7.  A run either completes with both tables fully written or is        *)
(* reported as failed with no destination left holding a header-only or    *)
(* truncated table, whichever open or write fails.                         *)
(***************************************************************************)
FullyWritten(file, t) == file.exists /\ file.records = TableRecords(t)

Partial(file, t) == file.exists /\ file.records # TableRecords(t)

C7_AllOrNothing ==
    /\ pc = "done" =>
        /\ FullyWritten(price_file, output)
        /\ FullyWritten(pc_file, percentage_change_output)
    /\ faults > 0 /\ pc \in {"done", "panicked"} =>
        /\ pc # "done"
        /\ ~Partial(price_file, output)
        /\ ~Partial(pc_file, percentage_change_output)

(***************************************************************************)
(* C8.  Original statement: a run whose selection is empty                 *)
(* (number_to_return = Some(N) with N <= 0, or no series passes both       *)
(* filters), with at least one region whose index is not empty, completes  *)
(* and its outputs hold no property column and no sale row.                *)
(***************************************************************************)
NoSeriesQualifies == \A k \in DOMAIN ppd_map : FilteredOut(k)

SomeIndexNotEmpty ==
    \E i \in 1..Len(reference_maps) : DOMAIN reference_maps[i] # {}

NoPropertyOutput ==
    /\ \A k \in Keys : ~InSeq(ColumnLabel(k[1], k[2]), output.labels)
    /\ RowsWithValueIn(output, 2..(1 + Cardinality(DOMAIN ppd_map))) = {}
    /\ percentage_change_output = OutputCSV_new

C8_EmptySelectionCompletes ==
    (/\ Selected
     /\ SomeIndexNotEmpty
     /\ \/ number_to_return # None /\ number_to_return[1] <= 0
        \/ NoSeriesQualifies)
    => /\ pc # "panicked"
       /\ pc = "done" => NoPropertyOutput

(***************************************************************************)
(* C8, amended.  The selection is empty when number_to_return = Some(0) or *)
(* no series passes both filters (a negative N empties nothing).  With at  *)
(* least one configured region such a run does not complete: it panics on  *)
(* an unwrap in the first region, before either destination is opened.     *)
(* With no configured region it completes and both tables hold the date    *)
(* header alone.                                                           *)
(***************************************************************************)
C8_EmptySelectionPanics ==
    (/\ Selected
     /\ \/ number_to_return = Some(0)
        \/ NoSeriesQualifies)
    => /\ datapoints_to_process = <<>>
       /\ reference_maps # <<>> =>
            /\ pc \in {"accumulate", "regions", "panicked"}
            /\ price_file = NoFile
            /\ pc_file = NoFile
            /\ pc = "panicked" => failure = "unwrap_on_none" /\ region_idx = 2
       /\ (reference_maps = <<>> /\ pc = "done" /\ faults = 0) =>
            /\ price_file = [exists |-> TRUE, records |-> <<<<"date">>>>]
            /\ pc_file = [exists |-> TRUE, records |-> <<<<"date">>>>]

\* Some(0) over a map with a qualifying series and two regions of which the
\* first has records: the run panicked in the first region
C8_Witness ==
    /\ pc = "panicked"
    /\ number_to_return = Some(0)
    /\ ~NoSeriesQualifies
    /\ Len(reference_maps) = 2
    /\ DOMAIN reference_maps[1] # {}

(***************************************************************************)
(* C9.  Original statement: a reference record whose time is outside       *)
(* [min_date, max_date] has no row in the regional columns of the price    *)
(* table and its average_price_flats is used in no diff_percent value.     *)
(***************************************************************************)
OutOfRange(rec) ==
    ~(DateLE(min_date[1], rec.time) /\ DateLE(rec.time, max_date[1]))

\* the columns of region i in the price table
RegionColumns(i) ==
    {Len(datapoints_to_process) + 2 * i, Len(datapoints_to_process) + 2 * i + 1}

\* every row under a column of region i is the row of a record in range
RegionRowsInRange(i) ==
    \A r \in RowsWithValueIn(output, RegionColumns(i)) :
        \E key \in DOMAIN reference_maps[i] :
            LET rec == reference_maps[i][key]
            IN  /\ ~OutOfRange(rec)
                /\ output.rows[r][1] = format_month(rec.time)
                /\ \E c \in RegionColumns(i) :
                    output.rows[r][c] \in {FormatI32(rec.average_price_all),
                                           FormatI32(rec.average_price_flats)}

\* no diff of region i read a record out of range
DiffsReadInRange(i) ==
    \A j \in 1..Len(datapoints_to_process) :
        \A key \in LookedUpKeys(datapoints_to_process[j].records, None) :
            ~OutOfRange(reference_maps[i][key])

C9_OutOfRangeUnused ==
    \A i \in DoneRegions : RegionRowsInRange(i) /\ DiffsReadInRange(i)

(***************************************************************************)
(* C9, amended.  A reference record whose time is outside                  *)
(* [min_date, max_date] has no row in the regional columns of the price    *)
(* table.  The diff lookups read the whole index by (month, year), so its  *)
(* average_price_flats is used whenever a sale of a selected series of two *)
(* or more sales falls in its month, as for the month of min_date when     *)
(* that sale is after the first of the month.                              *)
(***************************************************************************)
C9_OutOfRangeNoRow ==
    \A i \in DoneRegions :
        /\ RegionRowsInRange(i)
        /\ Cardinality(RowsWithValueIn(output, RegionColumns(i)))
             = 2 * Cardinality({key \in DOMAIN reference_maps[i] :
                                   ~OutOfRange(reference_maps[i][key])})

\* a finished run whose region holds the record of the month of min_date,
\* a sale after the first of that month, a record in range, one after
\* max_date
C9_Witness ==
    /\ pc = "done"
    /\ min_date # None
    /\ reference_maps # <<>>
    /\ day(min_date[1]) > 1
    /\ RefKey(min_date[1]) \in DOMAIN reference_maps[1]
    /\ \E key \in DOMAIN reference_maps[1] :
        ~DateLE(reference_maps[1][key].time, max_date[1])
    /\ RowsWithValueIn(output, RegionColumns(1)) # {}

(***************************************************************************)
(* C10.  For every consecutive pair (prev, curr) of a selected series and  *)
(* every region, a zero prev.price_paid or a zero reference average for    *)
(* prev's month makes the diff computation fail: the run does not go on,   *)
(* and no NaN or infinity reaches the percentage-change table.             *)
(***************************************************************************)
ZeroDenominator(d, i) ==
    \E k \in 2..Len(d.records) :
        \/ d.records[k - 1].price_paid = 0
        \/ /\ RefKey(d.records[k - 1].date) \in DOMAIN reference_maps[i]
           /\ reference_maps[i][RefKey(d.records[k - 1].date)].average_price_flats = 0

C10_DivisionByZeroFails ==
    /\ AllRegionsDone =>
        \A i \in 1..Len(reference_maps) :
            \A j \in 1..Len(datapoints_to_process) :
                ~ZeroDenominator(datapoints_to_process[j], i)
    /\ \A r \in 1..Len(percentage_change_output.rows) :
        \A c \in 1..Len(percentage_change_output.rows[r]) :
            percentage_change_output.rows[r][c] \notin {"NaN", "inf", "-inf"}

====
